---- MODULE Spec2Model ----
(***************************************************************************)
(* A model of the Tab Copy plugin (TabCopyPlugin, TabCopySettingTab).      *)
(*                                                                         *)
(* The host document is modelled as a row of tab headers in document       *)
(* order.  Each header carries a data-type attribute, an inner title       *)
(* element and, for web viewer tabs, a webview element in its view         *)
(* content.  An optional value (a DOM lookup that may return null, an      *)
(* attribute that may be missing) is the empty tuple << >> when absent     *)
(* and the one-element tuple << v >> when present.                         *)
(***************************************************************************)
EXTENDS Integers, Sequences, FiniteSets, Bags, TLC

\* Bounds of the model.
NumHeaders == 2
MaxInflight == 2
MaxPendingSaves == 1

Headers == 1..NumHeaders

Null == << >>
Some(v) == << v >>

\* Texts the host puts into the document: every tab has a title and every
\* web view an address of its own.
TitleOf(h) == IF h = 1 THEN "Docs" ELSE "Project Notes " \o ToString(h)
AddressOf(h) == "https://example.com/" \o ToString(h)
DataTypes == {"webviewer", "markdown", "canvas"}

VARIABLES
    tabs,       \* document: header -> [dataType, titleEl, webview]
    active,     \* document: the header matching the active-tab selector
    listeners,  \* document: header -> set of registered dblclick listeners
    defaults,   \* the DEFAULT_SETTINGS object
    settings,   \* this.settings
    stored,     \* the persisted configuration blob
    loadPc,     \* position of onload
    unloaded,   \* onunload has run
    observing,  \* the MutationObserver is connected
    registered, \* the command and the setting tab are registered
    saves,      \* toggle handlers suspended in saveSettings
    inflight,   \* clipboard writes whose promise is not settled
    last        \* what the last step did and emitted

vars == << tabs, active, listeners, defaults, settings, stored, loadPc,
           unloaded, observing, registered, saves, inflight, last >>

doc == [tabs |-> tabs, active |-> active]

----------------------------------------------------------------------------
\* Settings objects are functions from keys to values.

EmptyObject == [k \in {} |-> TRUE]

DEFAULT_SETTINGS == [enableDoubleClick |-> TRUE]

\* Object.assign(target, source): a null source contributes nothing.
ObjectAssign(target, source) ==
    IF source = Null THEN target
    ELSE [k \in (DOMAIN target) \cup (DOMAIN source[1]) |->
            IF k \in DOMAIN source[1] THEN source[1][k] ELSE target[k]]

\* mutant: the defaults are assigned over the stored data
loadSettings_defaultsLast(defs, data) ==
    [settings |-> ObjectAssign(ObjectAssign(EmptyObject, data), Some(defs)),
     defaults |-> defs]

\* loadSettings: this.settings = Object.assign({}, DEFAULT_SETTINGS, data).
\* Returns the new settings and the DEFAULT_SETTINGS object afterwards.
loadSettings(defs, data) ==
    [settings |-> ObjectAssign(ObjectAssign(EmptyObject, Some(defs)), data),
     defaults |-> defs]

StoredBlobs ==
    {Null, Some(EmptyObject),
     Some([enableDoubleClick |-> TRUE]), Some([enableDoubleClick |-> FALSE])}

----------------------------------------------------------------------------
\* The double-click listener.

\* The identity of the listener function: the instance field handleDoubleClick.
handleDoubleClick == "handleDoubleClick"

\* EventTarget.addEventListener / removeEventListener on header h.
AddEventListener(ls, h, fn) == [ls EXCEPT ![h] = @ \cup {fn}]
RemoveEventListener(ls, h, fn) == [ls EXCEPT ![h] = @ \ {fn}]

removeDoubleClickListener(ls, activeTab) ==
    IF activeTab # Null
    THEN RemoveEventListener(ls, activeTab[1], handleDoubleClick)
    ELSE ls

\* mutant: an arrow function written in place is registered, a new function
\* at every call
addDoubleClickListener_inlineArrow(ls, activeTab) ==
    LET ls1 == removeDoubleClickListener(ls, activeTab)
    IN  IF activeTab # Null
        THEN AddEventListener(ls1, activeTab[1],
                 "arrow" \o ToString(Cardinality(ls1[activeTab[1]])))
        ELSE ls1

addDoubleClickListener(ls, activeTab) ==
    LET ls1 == removeDoubleClickListener(ls, activeTab)
    IN  IF activeTab # Null
        THEN AddEventListener(ls1, activeTab[1], handleDoubleClick)
        ELSE ls1

\* mutant: the callback only ever detaches
observerCallback_detachOnly(ls, activeTab, s) ==
    removeDoubleClickListener(ls, activeTab)

\* The MutationObserver callback.
observerCallback(ls, activeTab, s) ==
    IF s.enableDoubleClick
    THEN addDoubleClickListener(ls, activeTab)
    ELSE removeDoubleClickListener(ls, activeTab)

----------------------------------------------------------------------------
\* copyLink.

\* The texts of the notices, in English (the source words them in Chinese).
NoActiveTabNotice == "No active tab found"
CopyFailedNotice == "Copy failed, please retry"
MarkdownCopiedPrefix == "Copied Markdown link: "
WikiCopiedPrefix == "Copied Wiki link: "

\* Template-literal interpolation of a possibly null value.
Interpolate(v) == IF v = Null THEN "null" ELSE v[1]

\* document.querySelector('.view-content.webviewer-content webview'):
\* the first webview element in document order.
QueryWebview(d) ==
    LET has == {h \in Headers : d.tabs[h].webview # Null}
    IN  IF has = {} THEN Null
        ELSE d.tabs[CHOOSE h \in has : \A g \in has : h <= g].webview

\* The two template literals.
MarkdownLink(tabTitle, tabLink) ==
    "[" \o tabTitle \o "](" \o Interpolate(tabLink) \o ")"
WikiLink_singleBrackets(tabTitle) == "[" \o tabTitle \o "]"
WikiLink(tabTitle) == "[[" \o tabTitle \o "]]"

NoEffect == [writes |-> << >>, notices |-> << >>, threw |-> FALSE]

\* Reading .innerText of the inner title element: a TypeError when the
\* selector finds no such element.
ReadTitleThrows(tab) == tab.titleEl = Null

\* The branch for data-type 'webviewer'.
webviewerBranch(tabTitle, d) ==
    LET webviewContent == QueryWebview(d)
        tabLink == IF webviewContent # Null THEN webviewContent[1] ELSE Some("")
        markdownLink == MarkdownLink(tabTitle, tabLink)
    IN  [NoEffect EXCEPT
           !.writes = << [text |-> markdownLink, branch |-> "webviewer"] >>]

\* The branch for data-type 'markdown'.
markdownBranch(tabTitle) ==
    LET wikiLink == WikiLink(tabTitle)
    IN  [NoEffect EXCEPT
           !.writes = << [text |-> wikiLink, branch |-> "markdown"] >>]

\* mutant: the missing tab is only logged to the console
noActiveTabBranch_consoleOnly == NoEffect

\* The branch taken when no element matches the active-tab selector.
noActiveTabBranch == [NoEffect EXCEPT !.notices = << NoActiveTabNotice >>]

\* mutant: copyLink does nothing while an earlier write is pending
copyLink_skipsWhilePending(this, d) ==
    IF this.inflight # EmptyBag THEN NoEffect
    ELSE IF d.active = Null THEN noActiveTabBranch
    ELSE IF ReadTitleThrows(d.tabs[d.active[1]])
         THEN [NoEffect EXCEPT !.threw = TRUE]
    ELSE IF d.tabs[d.active[1]].dataType = Some("webviewer")
         THEN webviewerBranch(d.tabs[d.active[1]].titleEl[1], d)
    ELSE IF d.tabs[d.active[1]].dataType = Some("markdown")
         THEN markdownBranch(d.tabs[d.active[1]].titleEl[1])
    ELSE NoEffect

\* One invocation of copyLink on document d: the clipboard writes it issues
\* (the text, and the branch whose callbacks wait on the promise), the notices
\* it shows at once, and whether it threw.  this is the plugin instance.
copyLink(this, d) ==
    LET activeTab == d.active
    IN  IF activeTab # Null
        THEN LET tab == d.tabs[activeTab[1]]
             IN  IF ReadTitleThrows(tab)
                 THEN [NoEffect EXCEPT !.threw = TRUE]
                 ELSE LET tabTitle == tab.titleEl[1]
                          dataType == tab.dataType
                      IN  IF dataType = Some("webviewer")
                          THEN webviewerBranch(tabTitle, d)
                          ELSE IF dataType = Some("markdown")
                          THEN markdownBranch(tabTitle)
                          ELSE NoEffect
        ELSE noActiveTabBranch

\* mutant: a rejected write is issued again
writeSettled_retry(w, ok, d) ==
    [notices |-> IF ok
                 THEN IF w.branch = "webviewer"
                      THEN << MarkdownCopiedPrefix \o w.text >>
                      ELSE << WikiCopiedPrefix \o w.text >>
                 ELSE << CopyFailedNotice >>,
     writes |-> IF ok THEN << >> ELSE << w >>]

\* The callbacks given to writeText(...).then: w.text is the link the closure
\* captured.  Returns the notices shown and the clipboard writes issued.
writeSettled(w, ok, d) ==
    [notices |-> IF ok
                 THEN IF w.branch = "webviewer"
                      THEN << MarkdownCopiedPrefix \o w.text >>
                      ELSE << WikiCopiedPrefix \o w.text >>
                 ELSE << CopyFailedNotice >>,
     writes |-> << >>]

----------------------------------------------------------------------------
\* Clipboard writes in flight: the bag of writes whose promise is not settled.

RECURSIVE SeqToBag(_)
SeqToBag(ws) ==
    IF ws = << >> THEN EmptyBag ELSE SetToBag({Head(ws)}) (+) SeqToBag(Tail(ws))

RECURSIVE Repeat(_, _)
Repeat(ws, n) == IF n = 0 THEN << >> ELSE ws \o Repeat(ws, n - 1)

\* The record of a step: l is a failed invocation of copyLink when the step
\* invoked copyLink and no write was issued, or when a write was rejected.
FailedInvocation(l) ==
    \/ l.op \in {"command", "dblclick"} /\ l.calls >= 1 /\ l.res.writes = << >>
    \/ l.op = "writeSettles" /\ ~l.settled[1].ok

QuietAfter(op, failure) ==
    [op |-> op, target |-> Null, calls |-> 0, res |-> NoEffect,
     notices |-> << >>, settled |-> Null, value |-> Null,
     afterFailure |-> failure]

\* A step that shows and issues nothing; afterFailure tells whether the step
\* before it was a failed invocation of copyLink.
Quiet(op) == QuietAfter(op, FailedInvocation(last))

\* The plugin instance, with the writes it has pending.
plugin == [settings |-> settings, inflight |-> inflight]

\* An event whose handlers invoke copyLink n times.
Invoke(op, target, n) ==
    LET r == copyLink(plugin, doc)
        ws == Repeat(r.writes, n)
    IN  /\ BagCardinality(inflight) + Len(ws) <= MaxInflight
        /\ inflight' = inflight (+) SeqToBag(ws)
        /\ last' = [Quiet(op) EXCEPT !.target = target, !.calls = n,
                                     !.res = IF n = 0 THEN NoEffect ELSE r,
                                     !.notices = Repeat(r.notices, n)]

----------------------------------------------------------------------------
\* The documents the host can show.

\* The shapes of header h: its data-type attribute (possibly missing), its
\* inner title element (possibly missing), and for a web viewer tab its
\* webview element (possibly missing, possibly without a src attribute).
TabShapes(h) ==
    {t \in [dataType : {Null} \cup {Some(x) : x \in DataTypes},
            titleEl  : {Null, Some(TitleOf(h))},
            webview  : {Null, Some(Null), Some(Some(AddressOf(h)))}] :
        /\ t.webview # Null => t.dataType = Some("webviewer")
        /\ t.titleEl = Null => /\ t.webview = Null
                               /\ t.dataType \in {Some("markdown"), Some("canvas")}}

ActiveRefs == {Null} \cup {Some(h) : h \in Headers}

\* The plugin instance after construction, before onload.
InitPlugin ==
    /\ listeners = [h \in Headers |-> {}]
    /\ defaults = DEFAULT_SETTINGS
    /\ settings = Null
    /\ loadPc = "start"
    /\ unloaded = FALSE
    /\ observing = FALSE
    /\ registered = FALSE
    /\ saves = << >>
    /\ inflight = EmptyBag
    /\ last = QuietAfter("init", FALSE)

\* A note tab first, then web viewer and note tabs in turn.
OrdinaryDocument ==
    [h \in Headers |->
        [dataType |-> IF h % 2 = 1 THEN Some("markdown") ELSE Some("webviewer"),
         titleEl  |-> Some(TitleOf(h)),
         webview  |-> IF h % 2 = 1 THEN Null ELSE Some(Some(AddressOf(h)))]]

\* The plugin among well-formed tabs, with any persisted configuration.
Init ==
    /\ tabs = OrdinaryDocument
    /\ active \in ActiveRefs
    /\ stored \in StoredBlobs
    /\ InitPlugin

\* The plugin among tabs of every shape, with nothing persisted.
LinkInit ==
    /\ tabs \in {f \in [Headers -> UNION {TabShapes(h) : h \in Headers}] :
                    \A h \in Headers : f[h] \in TabShapes(h)}
    /\ active \in ActiveRefs
    /\ stored = Null
    /\ InitPlugin

----------------------------------------------------------------------------
\* Plugin lifecycle.

\* onload up to its await of loadSettings.
OnloadBegin ==
    /\ loadPc = "start"
    /\ loadPc' = "awaitLoadData"
    /\ last' = Quiet("onloadBegin")
    /\ UNCHANGED << tabs, active, listeners, defaults, settings, stored,
                    unloaded, observing, registered, saves, inflight >>

\* onload from the completion of loadData to its end.
OnloadResume ==
    /\ loadPc = "awaitLoadData"
    /\ LET r == loadSettings(defaults, stored)
       IN  /\ settings' = Some(r.settings)
           /\ defaults' = r.defaults
           /\ listeners' = IF r.settings.enableDoubleClick
                           THEN addDoubleClickListener(listeners, active)
                           ELSE listeners
    /\ registered' = TRUE
    /\ observing' = TRUE
    /\ loadPc' = "done"
    /\ last' = Quiet("onload")
    /\ UNCHANGED << tabs, active, stored, unloaded, saves, inflight >>

Onunload ==
    /\ loadPc # "start"
    /\ ~unloaded
    /\ listeners' = removeDoubleClickListener(listeners, active)
    /\ observing' = FALSE
    /\ registered' = FALSE
    /\ unloaded' = TRUE
    /\ last' = Quiet("onunload")
    /\ UNCHANGED << tabs, active, defaults, settings, stored, loadPc, saves,
                    inflight >>

----------------------------------------------------------------------------
\* Host document events.

\* Another header (or none) comes to match the active-tab selector.
TabSwitch(a) ==
    /\ a # active
    /\ active' = a
    /\ last' = Quiet("tabSwitch")
    /\ UNCHANGED << tabs, listeners, defaults, settings, stored, loadPc,
                    unloaded, observing, registered, saves, inflight >>

\* A childList mutation somewhere under document.body is delivered.
Mutation ==
    /\ observing
    /\ listeners' = observerCallback(listeners, active, settings[1])
    /\ last' = Quiet("mutation")
    /\ UNCHANGED << tabs, active, defaults, settings, stored, loadPc, unloaded,
                    observing, registered, saves, inflight >>

\* The host replaces the element of header h by a fresh one; the observer, if
\* connected, is notified of that childList mutation.
Rerender(h) ==
    /\ LET fresh == [listeners EXCEPT ![h] = {}]
       IN  listeners' = IF observing
                        THEN observerCallback(fresh, active, settings[1])
                        ELSE fresh
    /\ last' = Quiet("rerender")
    /\ UNCHANGED << tabs, active, defaults, settings, stored, loadPc, unloaded,
                    observing, registered, saves, inflight >>

----------------------------------------------------------------------------
\* Settings toggle.

\* mutant: the defaults are saved, not the settings object
saveSettings_defaults(this) == DEFAULT_SETTINGS

\* saveSettings: the data handed to saveData, this.settings as a whole.
saveSettings(this) == this.settings[1]

\* mutant: the handler waits for the save before it updates the setting
ToggleChange_suspendsBeforeUpdate(value) ==
    /\ registered
    /\ value # settings[1].enableDoubleClick
    /\ Len(saves) < MaxPendingSaves
    /\ saves' = Append(saves, [data |-> [settings[1] EXCEPT
                                           !.enableDoubleClick = value],
                               value |-> value])
    /\ last' = [Quiet("toggleChange") EXCEPT !.value = Some(value)]
    /\ UNCHANGED << tabs, active, listeners, defaults, settings, stored,
                    loadPc, unloaded, observing, registered, inflight >>

\* The toggle's onChange up to its await of saveSettings.  The toggle shows
\* settings.enableDoubleClick, so a change carries the other value.
ToggleChange(value) ==
    /\ registered
    /\ value # settings[1].enableDoubleClick
    /\ Len(saves) < MaxPendingSaves
    /\ settings' = Some([settings[1] EXCEPT !.enableDoubleClick = value])
    /\ saves' = Append(saves, [data |-> saveSettings([plugin EXCEPT
                                                !.settings = settings']),
                               value |-> value])
    /\ last' = [Quiet("toggleChange") EXCEPT !.value = Some(value)]
    /\ UNCHANGED << tabs, active, listeners, defaults, stored, loadPc,
                    unloaded, observing, registered, inflight >>

\* saveData resolves; onChange runs to its end.
SaveResolve ==
    /\ saves # << >>
    /\ stored' = Some(Head(saves).data)
    /\ listeners' = IF Head(saves).value
                    THEN addDoubleClickListener(listeners, active)
                    ELSE removeDoubleClickListener(listeners, active)
    /\ saves' = Tail(saves)
    /\ last' = [Quiet("saveResolve") EXCEPT !.value = Some(Head(saves).value)]
    /\ UNCHANGED << tabs, active, defaults, settings, loadPc, unloaded,
                    observing, registered, inflight >>

\* saveData rejects; the rejection leaves onChange at the await.
SaveReject ==
    /\ saves # << >>
    /\ saves' = Tail(saves)
    /\ last' = [Quiet("saveReject") EXCEPT !.value = Some(Head(saves).value)]
    /\ UNCHANGED << tabs, active, listeners, defaults, settings, stored,
                    loadPc, unloaded, observing, registered, inflight >>

----------------------------------------------------------------------------
\* Copying.

\* The 'copy-link' command.
CopyLinkCommand ==
    /\ registered
    /\ Invoke("command", Null, 1)
    /\ UNCHANGED << tabs, active, listeners, defaults, settings, stored,
                    loadPc, unloaded, observing, registered, saves >>

\* mutant: the listener detaches itself when its copy issues no write
DoubleClick_detachesOnFailure(h) ==
    /\ Invoke("dblclick", Some(h), Cardinality(listeners[h]))
    /\ listeners' = IF copyLink(plugin, doc).writes = << >>
                    THEN [listeners EXCEPT ![h] = {}]
                    ELSE listeners
    /\ UNCHANGED << tabs, active, defaults, settings, stored,
                    loadPc, unloaded, observing, registered, saves >>

\* A dblclick event on header h: every listener registered on h runs.
DoubleClick(h) ==
    /\ Invoke("dblclick", Some(h), Cardinality(listeners[h]))
    /\ UNCHANGED << tabs, active, listeners, defaults, settings, stored,
                    loadPc, unloaded, observing, registered, saves >>

\* The promise of a write w in flight settles.
WriteSettles(w, ok) ==
    /\ BagIn(w, inflight)
    /\ LET r == writeSettled(w, ok, doc)
           rest == inflight (-) SetToBag({w})
       IN  /\ BagCardinality(rest) + Len(r.writes) <= MaxInflight
           /\ inflight' = rest (+) SeqToBag(r.writes)
           /\ last' = [Quiet("writeSettles") EXCEPT
                         !.notices = r.notices,
                         !.settled = Some([text |-> w.text, ok |-> ok])]
    /\ UNCHANGED << tabs, active, listeners, defaults, settings, stored,
                    loadPc, unloaded, observing, registered, saves >>

Next ==
    \/ OnloadBegin
    \/ OnloadResume
    \/ Onunload
    \/ \E a \in ActiveRefs : TabSwitch(a)
    \/ Mutation
    \/ \E h \in Headers : Rerender(h)
    \/ \E value \in BOOLEAN : ToggleChange(value)
    \/ SaveResolve
    \/ SaveReject
    \/ CopyLinkCommand
    \/ \E h \in Headers : DoubleClick(h)
    \/ \E w \in BagToSet(inflight), ok \in BOOLEAN : WriteSettles(w, ok)

Spec == Init /\ [][Next]_vars

\* The events that bear on copying.
LinkNext ==
    \/ OnloadBegin
    \/ OnloadResume
    \/ \E a \in ActiveRefs : TabSwitch(a)
    \/ Mutation
    \/ CopyLinkCommand
    \/ \E h \in Headers : DoubleClick(h)
    \/ \E w \in BagToSet(inflight), ok \in BOOLEAN : WriteSettles(w, ok)

LinkSpec == LinkInit /\ [][LinkNext]_vars

\* The writes that arise from the well-formed document: one for each tab.
OrdinaryWrites ==
    {copyLink([settings |-> Null, inflight |-> EmptyBag],
              [tabs |-> OrdinaryDocument, active |-> Some(h)]).writes[1] :
        h \in Headers}

\* Copying among well-formed tabs, where the platform settles the promise of
\* every clipboard write.
WriteFairSpec ==
    /\ Init
    /\ [][LinkNext]_vars
    /\ \A w \in OrdinaryWrites :
          WF_vars(\E ok \in BOOLEAN : WriteSettles(w, ok))

----------------------------------------------------------------------------
\* Properties.

\* The last step was an event that invoked copyLink at least once.  Such a
\* step leaves the document as the invocation found it.
Copied == last.op \in {"command", "dblclick"} /\ last.calls >= 1

ActiveTab == tabs[active[1]]

\* C1: when the active header is a note tab (data-type 'markdown') with title
\* T, an invocation of copyLink issues exactly one clipboard write, and the
\* text written is "[[T]]".
C1_NoteTabWritesWikiLink ==
    (/\ Copied
     /\ active # Null
     /\ ActiveTab.dataType = Some("markdown")
     /\ ActiveTab.titleEl # Null)
    => /\ Len(last.res.writes) = 1
       /\ last.res.writes[1].text = "[[" \o ActiveTab.titleEl[1] \o "]]"
       /\ BagIn(last.res.writes[1], inflight)

C1_Witness ==
    /\ last.op = "command"
    /\ active = Some(1)
    /\ ActiveTab.dataType = Some("markdown")
    /\ Len(last.res.writes) = 1
    /\ last.res.writes[1].text = "[[Docs]]"

\* The link C2 expects for the active web viewer tab: its own web view's
\* address, or no address when it has no web view.
OwnWebLinkText ==
    "[" \o ActiveTab.titleEl[1] \o "]("
        \o (IF ActiveTab.webview = Null THEN "" ELSE ActiveTab.webview[1][1])
        \o ")"

\* C2: when the active header is a web viewer tab with title T whose own web
\* view has address A, an invocation of copyLink writes exactly "[T](A)",
\* however many web viewer tabs are open; when the tab has no web view it
\* writes "[T]()".  (Stated for documents in which every web view carries a
\* src attribute.)
C2_WebTabWritesOwnAddress ==
    (/\ Copied
     /\ active # Null
     /\ ActiveTab.dataType = Some("webviewer")
     /\ ActiveTab.titleEl # Null
     /\ \A h \in Headers : tabs[h].webview # Some(Null))
    => /\ Len(last.res.writes) = 1
       /\ last.res.writes[1].text = OwnWebLinkText

\* C3: when no element matches the active-tab selector, an invocation of
\* copyLink, by the command or by a double-click, attempts no clipboard write
\* and shows exactly one NoActiveTab notice.
C3_NoActiveTabNotice ==
    (Copied /\ active = Null)
    => /\ last.res.writes = << >>
       /\ last.res.notices = << NoActiveTabNotice >>
       /\ Len(last.notices) = last.calls
       /\ ~last.res.threw

C3_Witness ==
    /\ last.op = "dblclick"
    /\ last.calls = 1
    /\ active = Null
    /\ last.notices = << NoActiveTabNotice >>
    /\ inflight = EmptyBag

Recognized(tab) == tab.dataType \in {Some("webviewer"), Some("markdown")}

\* C4: a clipboard write is only ever issued for an active tab of kind
\* 'webviewer' or 'markdown'; an invocation of copyLink on an active tab of
\* any other kind, a missing data-type attribute included, issues no write,
\* shows no notice and raises no error.
C4_UnrecognizedKindIsSilent ==
    Copied =>
        /\ last.res.writes # << >> => (active # Null /\ Recognized(ActiveTab))
        /\ (active # Null /\ ~Recognized(ActiveTab))
           => /\ last.res.writes = << >>
              /\ last.res.notices = << >>
              /\ ~last.res.threw

\* A step in which the promise of a write settles.
SettleStep == last'.op = "writeSettles"

\* A step that invokes copyLink issues each invocation's write once.
IssuedOnce ==
    (last'.op \in {"command", "dblclick"})
    => /\ Len(last'.res.writes) <= 1
       /\ inflight' = inflight (+) SeqToBag(Repeat(last'.res.writes, last'.calls))

\* A step in which a write w settles takes w, and nothing else, out of
\* flight, issues no write, and shows one notice: the success notice with
\* w's text if the write resolved, the failure notice if it was rejected.
SettledOnce ==
    SettleStep
    => \E w \in BagToSet(inflight) :
          /\ inflight' = inflight (-) SetToBag({w})
          /\ last'.settled = Some([text |-> w.text, ok |-> last'.settled[1].ok])
          /\ last'.notices =
                IF last'.settled[1].ok
                THEN << (IF w.branch = "webviewer" THEN "Copied Markdown link: "
                                                    ELSE "Copied Wiki link: ")
                        \o w.text >>
                ELSE << "Copy failed, please retry" >>

\* A write stays in flight until it settles.
KeptUntilSettled ==
    ~SettleStep => \A w \in BagToSet(inflight) : CopiesIn(w, inflight') >= CopiesIn(w, inflight)

\* C7: every clipboard write copyLink issues is attempted once, never retried
\* or queued, and is eventually followed by one notice: the success notice
\* carrying the text of that write if it resolves, the failure notice if it
\* is rejected; other invocations and tab switches in between change nothing.
C7_WriteNotifiedOnce ==
    /\ [][IssuedOnce /\ SettledOnce /\ KeptUntilSettled]_vars
    /\ \A w \in OrdinaryWrites :
          BagIn(w, inflight)
          ~> (last.op = "writeSettles" /\ last.settled[1].text = w.text)

\* A write settled while another write, issued for another tab, was pending.
C7_Witness ==
    /\ last.op = "writeSettles"
    /\ last.settled[1].ok
    /\ last.notices = << "Copied Wiki link: " \o last.settled[1].text >>
    /\ BagCardinality(inflight) = 1
    /\ \E w \in BagToSet(inflight) : w.text # last.settled[1].text

\* C10: two successive invocations of copyLink on an unchanged document issue
\* writes with the same text, whatever was invoked, resolved or rejected
\* before them.
C10_CopyIdempotent ==
    [][(/\ Copied
        /\ last'.op \in {"command", "dblclick"}
        /\ last'.calls >= 1
        /\ tabs' = tabs /\ active' = active)
       => last'.res = last.res]_vars

\* Two invocations in a row, the first one's write still pending.
C10_Witness ==
    /\ Copied
    /\ BagCardinality(inflight) = 2
    /\ last.res.writes # << >>
    /\ CopiesIn(last.res.writes[1], inflight) = 2

Attached(h) == handleDoubleClick \in listeners[h]

Disabled == settings # Null /\ ~settings[1].enableDoubleClick

\* Every toggle change has run to its end and its save was written: nothing
\* waits for a save, and the persisted blob is the settings object.
TogglesSaved == saves = << >> /\ stored = settings

\* C5: in every state in which settings.enableDoubleClick is false, after any
\* sequence of load, toggle changes, tab switches and UI-mutation
\* notifications, the current active header carries no double-click trigger,
\* and a double-click on the active header issues no clipboard write.
\* (Stated for the states in which every toggle change has been saved.)
C5_DisabledMeansNoTrigger ==
    (Disabled /\ TogglesSaved /\ active # Null)
    => /\ ~Attached(active[1])
       /\ (last.op = "dblclick" /\ last.target = active) => last.res.writes = << >>

\* C6: when the handler of a toggle change from false to true has finished
\* and an active header exists, that header carries the trigger, with no
\* UI-mutation notification needed, so that a double-click on it invokes
\* copyLink.
C6_ToggleOnAttaches ==
    (/\ last.op \in {"saveResolve", "saveReject"}
     /\ last.value = Some(TRUE)
     /\ active # Null)
    => Attached(active[1])

\* C8: the current active header carries at most one double-click trigger, a
\* double-click on a header that carries it invokes copyLink exactly once,
\* and a UI-mutation notification handled while the feature is enabled
\* leaves exactly one trigger on the active header.
C8_AtMostOneTrigger ==
    /\ \A h \in Headers : Cardinality(listeners[h]) <= 1
    /\ (last.op = "dblclick" /\ listeners[last.target[1]] # {}) => last.calls = 1
    /\ (last.op = "mutation" /\ ~Disabled /\ active # Null)
       => Cardinality(listeners[active[1]]) = 1

C8_Witness ==
    /\ last.op = "dblclick"
    /\ last.target = active
    /\ last.calls = 1
    /\ Len(last.res.writes) = 1
    /\ BagCardinality(inflight) = 1

\* The value loadSettings is to give enableDoubleClick: the stored one when
\* the blob has the key, the default otherwise.
ExpectedSetting ==
    IF stored # Null /\ "enableDoubleClick" \in DOMAIN stored[1]
    THEN stored[1].enableDoubleClick
    ELSE TRUE

\* C9: when loadSettings has completed, settings.enableDoubleClick is the
\* stored value if the persisted blob has that key and the default true
\* otherwise; the defaults object is never changed.
C9_LoadMergesDefaults ==
    /\ defaults = [enableDoubleClick |-> TRUE]
    /\ last.op = "onload"
       => /\ settings # Null
          /\ DOMAIN settings[1] = {"enableDoubleClick"}
          /\ settings[1].enableDoubleClick = ExpectedSetting

C9_Witness ==
    /\ last.op = "onload"
    /\ stored = Some([enableDoubleClick |-> FALSE])
    /\ settings = Some([enableDoubleClick |-> FALSE])
    /\ defaults = [enableDoubleClick |-> TRUE]

\* C11: whatever the document looks like when copyLink is invoked (no active
\* header, an active header without a title element, an unrecognized kind, a
\* missing web view), the invocation ends in at most a notice: no exception
\* propagates out of copyLink to the command dispatcher or to the
\* double-click handler.
C11_NothingPropagates ==
    Copied => ~last.res.threw

\* The write a recognized active tab calls for: "[[T]]" for a note tab, and
\* for a web viewer tab "[T](A)" with the address of its web view.
CorrectWrite ==
    /\ Len(last.res.writes) = 1
    /\ BagIn(last.res.writes[1], inflight)
    /\ ActiveTab.dataType = Some("markdown")
       => last.res.writes[1].text = "[[" \o ActiveTab.titleEl[1] \o "]]"
    /\ (/\ ActiveTab.dataType = Some("webviewer")
        /\ ActiveTab.webview # Some(Null)
        /\ QueryWebview(doc) = ActiveTab.webview)
       => last.res.writes[1].text = OwnWebLinkText

C13_NoWatcherAfterUnload ==
    [][(unloaded /\ last'.op = "mutation") => listeners' = listeners]_vars

\* C14: when a UI-mutation notification has been handled, no header other
\* than the current active header carries the trigger: none is left behind on
\* a header that was active earlier, whatever the tab switches before it.
C14_NoTriggerLeftBehind ==
    (last.op = "mutation" /\ active # Null)
    => \A h \in Headers : Attached(h) => active = Some(h)

\* C16: for an active web viewer tab with title T whose address is absent,
\* copyLink writes exactly "[T]()", both when no web view element is found
\* and when the element found carries no src attribute.  (Stated for
\* documents in which no other tab has a web view.)
C16_AbsentAddressIsEmpty ==
    (/\ Copied
     /\ active # Null
     /\ ActiveTab.dataType = Some("webviewer")
     /\ ActiveTab.titleEl # Null
     /\ ActiveTab.webview \in {Null, Some(Null)}
     /\ \A h \in Headers \ {active[1]} : tabs[h].webview = Null)
    => /\ Len(last.res.writes) = 1
       /\ last.res.writes[1].text = "[" \o ActiveTab.titleEl[1] \o "]()"

\* C19: once onunload has returned, no header carries the double-click
\* trigger, and a double-click on any header issues no clipboard write,
\* whatever the order of onload, tab switches, UI mutations, toggle changes
\* and onunload, onunload during onload's wait for the settings included.
\* (Stated for the states in which the watcher is disconnected.)
C19_UnloadLeavesNoTrigger ==
    (unloaded /\ ~observing)
    => /\ \A h \in Headers : ~Attached(h)
       /\ last.op = "dblclick" => last.res.writes = << >>

\* C20: when the handler of a toggle change has finished, its save resolved
\* or rejected, the current active header carries the trigger if and only if
\* settings.enableDoubleClick is true.
C20_ToggleEndsConsistent ==
    (/\ last.op \in {"saveResolve", "saveReject"}
     /\ saves = << >>
     /\ active # Null)
    => (Attached(active[1]) <=> settings[1].enableDoubleClick)

\* C15: while the plugin is loaded and enableDoubleClick is true, the trigger
\* follows the active tab: when the active header has been replaced or
\* another tab has become active and the UI-mutation notification has been
\* handled, the current active header carries the trigger; and a double-click
\* on the active header that carries it invokes copyLink once, for the tab
\* that is active at that moment.
C15_TriggerFollowsActiveTab ==
    /\ (/\ last.op \in {"mutation", "rerender"}
        /\ observing /\ ~unloaded
        /\ settings[1].enableDoubleClick
        /\ active # Null)
       => Attached(active[1])
    /\ (/\ last.op = "dblclick"
        /\ active # Null
        /\ last.target = active
        /\ Attached(active[1]))
       => /\ last.calls = 1
          /\ CorrectWrite

\* The notification was handled after a switch from header 1 to header 2:
\* header 2 carries the trigger (header 1 still carries the earlier one).
C15_Witness ==
    /\ last.op = "mutation"
    /\ ~unloaded
    /\ settings[1].enableDoubleClick
    /\ active = Some(2)
    /\ Attached(2)
    /\ Attached(1)

HandlerRan(l) ==
    \/ l.op \in {"mutation", "command", "toggleChange"}
    \/ l.op = "dblclick" /\ l.calls >= 1

====
